---------------------------- MODULE Spec2Model ----------------------------
(***************************************************************************)
(* Codot bridge: the WebSocket client (GodotClient) and the MCP gateway    *)
(* (CodotServer) as a state machine.                                       *)
(*                                                                         *)
(* The program runs on one asyncio event loop: code between two awaits is  *)
(* atomic, so every action below is the code from one suspension point to  *)
(* the next.  Callers (Procs) are the logically concurrent asyncio tasks   *)
(* that each invoke one client method or one gateway tool; receive tasks   *)
(* are the background tasks spawned by connect(); the host is the remote   *)
(* peer.                                                                   *)
(***************************************************************************)
EXTENDS Integers, Sequences, FiniteSets, TLC

\* ------------------------------------------------------------- bounds
NProcs == 3          \* operations invoked, each by its own caller
MaxInFlight == 1     \* inbound frames sent by the host and not yet received
MaxHandlers == 2     \* event subscriptions held by one client

Procs == 1..NProcs
None == 0                    \* Python None for handles and identifiers
\* Objects are named after the caller that created them: request identifier
\* p is the uuid4 generated by caller p's send_command, connection p and
\* receive task p are those created by caller p's connect().  Client 1 is
\* the one built by CodotServer.__init__, client p + 1 the one built by
\* caller p's godot_connect.
Rids == Procs
Conns == Procs
Tasks == Procs
Clients == 1..(NProcs + 1)

\* ------------------------------------------------------------- wire
\* A decoded inbound frame: the "id" key (None when absent), the "type"
\* key and whether it is a success or a host-domain error envelope.
MsgTypes == {"response", "log_event", "game_connected"}
Frames == [id : Rids \cup {None}, type : MsgTypes, ok : BOOLEAN]
ResponseFrames == {f \in Frames : f.type = "response"}
NoFrame == [id |-> None, type |-> "response", ok |-> FALSE]

\* A decoded frame whose "type" is none of those _handle_message looks for.
UnknownFrames == [id : Rids \cup {None}, type : {"unknown"}, ok : BOOLEAN]

\* Inbound messages that are no frame of the above form: text that is not
\* JSON, and JSON text whose value is not an object (an array, a number, a
\* string, null).  Only the `type` field tells them apart; they have no keys.
NotJson == [id |-> None, type |-> "<not JSON>", ok |-> FALSE]
NotObject == [id |-> None, type |-> "<not an object>", ok |-> FALSE]
Malformed == {NotJson, NotObject}

\* ------------------------------------------------------------- registry
\* A sample of the command registry: a descriptor is its alias (godot_command,
\* "" when unset), its enabled flag and the `required` set of its schema.
\* "ping", "play" and "subscribe" are entries of COMMANDS as shipped; "custom"
\* carries an alias different from its key and "hidden" is switched off, the
\* two settings a CommandDefinition has besides the shipped ones.
COMMANDS ==
    [ping |-> [godot_command |-> "", enabled |-> TRUE, required |-> {}],
     play |-> [godot_command |-> "play", enabled |-> TRUE, required |-> {}],
     subscribe |-> [godot_command |-> "", enabled |-> TRUE,
                    required |-> {"client_id", "event_type"}],
     custom |-> [godot_command |-> "custom_cmd", enabled |-> TRUE,
                 required |-> {}],
     hidden |-> [godot_command |-> "", enabled |-> FALSE, required |-> {}]]

DISABLED_COMMANDS == {"subscribe"}

\* The keys of COMMANDS as shipped (commands.py 187-3219), in source order.
ShippedCommands == {
    "ping", "get_status", "play", "play_current", "play_custom_scene",
    "stop", "is_playing", "pause_game", "resume_game", "get_debug_output",
    "clear_debug_log", "get_debugger_status", "get_editor_log",
    "get_scene_tree", "get_node_info", "get_node_properties",
    "get_project_files", "read_file", "write_file", "file_exists",
    "create_directory", "delete_file", "delete_directory", "rename_file",
    "copy_file", "get_file_info", "find_file", "find_resources_by_type",
    "search_in_files", "find_nodes_by_script", "open_scene", "save_scene",
    "save_all_scenes", "get_open_scenes", "get_selected_nodes",
    "select_node", "get_editor_settings", "get_editor_state",
    "get_unsaved_changes", "get_script_errors", "open_script",
    "get_breakpoints", "set_breakpoint", "clear_breakpoints",
    "get_project_settings", "list_resources", "get_open_dialogs",
    "dismiss_dialog", "refresh_filesystem", "reimport_resource",
    "mark_modified", "get_current_screen", "set_current_screen",
    "get_project_config", "set_project_config", "undo", "redo",
    "get_undo_redo_status", "get_recent_files", "create_node",
    "delete_node", "set_node_property", "rename_node", "move_node",
    "duplicate_node", "instantiate_scene", "get_node_script",
    "attach_script", "detach_script", "make_node_local",
    "get_node_hierarchy_info", "create_scene", "new_inherited_scene",
    "duplicate_scene", "get_scene_dependencies", "reload_current_scene",
    "close_scene", "simulate_key", "simulate_mouse_button",
    "simulate_mouse_motion", "simulate_action", "get_input_actions",
    "get_input_action", "add_input_action", "remove_input_action",
    "add_input_event_key", "add_input_event_mouse",
    "add_input_event_joypad_button", "add_input_event_joypad_axis",
    "clear_input_action_events", "gut_check_installed", "gut_run_all",
    "gut_run_script", "gut_run_test", "gut_get_results", "gut_list_tests",
    "gut_create_test", "list_node_signals", "emit_signal", "call_method",
    "list_node_methods", "get_nodes_in_group", "add_node_to_group",
    "remove_node_from_group", "load_resource", "get_resource_info",
    "list_animations", "play_animation", "stop_animation",
    "list_audio_buses", "set_audio_bus_volume", "set_audio_bus_mute",
    "create_resource", "save_resource", "duplicate_resource",
    "set_resource_properties", "list_resource_types",
    "get_performance_info", "get_memory_info", "print_to_console",
    "get_recent_errors", "get_autoloads", "get_autoload", "add_autoload",
    "remove_autoload", "rename_autoload", "set_autoload_path",
    "reorder_autoloads", "enable_plugin", "disable_plugin", "get_plugins",
    "reload_project", "run_and_capture", "wait_for_output", "ping_game",
    "get_game_state", "take_screenshot", "gut_run_and_wait",
    "gut_get_summary", "batch_commands", "bulk_set_properties",
    "create_complete_scene", "create_scene_with_script", "list_event_types",
    "subscribe", "unsubscribe", "get_subscriptions", "poll_events",
    "unsubscribe_all", "get_subscription_stats", "get_import_settings",
    "set_import_settings", "get_resource_dependencies",
    "find_broken_references", "get_editor_theme", "get_editor_layout",
    "get_editor_viewport_info", "create_animation", "add_animation_track",
    "add_animation_keyframe", "preview_animation", "get_scene_diff",
    "get_profiler_data", "get_orphan_nodes", "get_object_stats",
    "get_stack_info"}

\* A suppression set that names a command the registry does not have.
ShippedDisabledStale == {"subscribe", "no_such_command"}

\* DISABLED_COMMANDS as shipped (commands.py 81-183), in source order.
ShippedDisabled == {
    "list_animations", "play_animation", "stop_animation",
    "create_animation", "add_animation_track", "add_animation_keyframe",
    "preview_animation", "list_audio_buses", "set_audio_bus_volume",
    "set_audio_bus_mute", "load_resource", "get_resource_info",
    "save_resource", "duplicate_resource", "set_resource_properties",
    "list_resource_types", "get_import_settings", "set_import_settings",
    "get_resource_dependencies", "get_editor_theme", "get_editor_layout",
    "get_editor_viewport_info", "list_event_types", "subscribe",
    "unsubscribe", "get_subscriptions", "poll_events", "unsubscribe_all",
    "get_subscription_stats", "get_profiler_data", "get_orphan_nodes",
    "get_object_stats", "get_stack_info", "get_scene_diff",
    "get_breakpoints", "set_breakpoint", "clear_breakpoints",
    "add_input_action", "remove_input_action", "add_input_event_key",
    "add_input_event_mouse", "add_input_event_joypad_button",
    "add_input_event_joypad_axis", "clear_input_action_events",
    "get_autoload", "add_autoload", "remove_autoload", "rename_autoload",
    "set_autoload_path", "reorder_autoloads", "list_node_signals",
    "emit_signal", "list_node_methods", "get_nodes_in_group",
    "add_node_to_group", "remove_node_from_group", "make_node_local",
    "get_node_hierarchy_info", "batch_commands", "bulk_set_properties",
    "create_complete_scene", "create_scene_with_script", "find_file",
    "find_resources_by_type", "search_in_files", "find_nodes_by_script",
    "find_broken_references", "get_editor_settings", "get_unsaved_changes",
    "get_recent_files", "mark_modified", "enable_plugin", "disable_plugin",
    "reload_project"}

\* A call_tool invocation: the tool name and the keys of its arguments.
\* NoTool marks a client method called directly.
NoTool == [name |-> "none", arguments |-> {}]

\* name[6:] for the names that start with "godot_" (server.py 251-252).
cmd_name ==
    [godot_ping |-> "ping", godot_play |-> "play",
     godot_subscribe |-> "subscribe", godot_custom |-> "custom",
     godot_hidden |-> "hidden", godot_no_such_command |-> "no_such_command"]

\* The tool is a command tool: it got past the three connection tools and
\* its name starts with "godot_".
IsCommandTool(tool) == tool.name \in DOMAIN cmd_name

\* The `command` argument of send_command: the registry key for a command
\* tool (server.py 277), and a direct caller's own choice.
CommandArg(tool) ==
    IF IsCommandTool(tool) THEN cmd_name[tool.name] ELSE "ping"

VARIABLES
    godot_client,      \* CodotServer.godot_client: the gateway's current client
    ENABLE_ALL_TOOLS,  \* server.ENABLE_ALL_TOOLS, read from the environment
    tools,             \* the names list_tools returned last ({} before)
    event_handlers,    \* GodotClient._event_handlers, per client and event key
    invoked,           \* the handlers the last handled frame invoked, in order
    websocket,         \* GodotClient.websocket, per client (None or a connection)
    receive_task,      \* GodotClient._receive_task, per client (None or a task)
    pending_requests,  \* GodotClient._pending_requests, per client: the keys
    fut,               \* state of the asyncio.Future created for each identifier
    futVal,            \* the frame a future was resolved with
    connState,         \* per connection: "unused", "open", "closed", or the way
                       \* the attempt to open it failed
    closeCalled,       \* per connection: close() was performed on it by the client
    inbox,             \* per connection: frames sent by the host, not yet received
    wire,              \* per connection: identifiers of the request frames sent
    odd,               \* per connection: the kinds of message the host has sent
                       \* that the protocol does not define
    task,              \* per receive task: its position and the objects it holds
    proc               \* per caller: its operation, where it is, and its outcome

vars == <<godot_client, ENABLE_ALL_TOOLS, tools, event_handlers, invoked,
          websocket, receive_task, pending_requests, fut, futVal,
          connState, closeCalled, inbox, wire, odd, task, proc>>

serverVars == <<godot_client, ENABLE_ALL_TOOLS, tools>>
eventVars == <<event_handlers, invoked>>

clientVars == <<websocket, receive_task, pending_requests>>
hostVars == <<connState, closeCalled, inbox, wire, odd>>

\* ------------------------------------------------------------- records
\* st: "unused", "created" (not run yet), "iter" (suspended in the iteration
\* of connection conn), "handling" (suspended in an async handler, inside
\* _emit_event for event key `key`, the `for` statement being about to move
\* to position `pos`), "done"; how: the way the loop ended.
NoTask == [st |-> "unused", cl |-> None, conn |-> None, cancelReq |-> FALSE,
           how |-> "none", key |-> "", pos |-> 0]

\* pc: "new" (not invoked yet), a suspension point, or "done"; aux: the
\* object the caller is suspended on; ws0: the handle disconnect found;
\* due: the timeout of the call's wait_for has elapsed.
NewProc == [pc |-> "new", op |-> "none", tool |-> NoTool, command |-> "",
            cl |-> None, aux |-> None, ws0 |-> None, due |-> FALSE,
            out |-> "none", res |-> "none", frame |-> NoFrame]

\* Faulty variant: a handle that is present counts as connected, whether the
\* connection it refers to is open or not.
is_connectedHandleOnly(c) == websocket[c] # None

\* GodotClient.is_connected
is_connected(c) ==
    websocket[c] # None /\ connState[websocket[c]] = "open"

LiveTask(t) == task[t].st \in {"created", "iter", "handling"}

\* The event keys of _handle_message (lines 264-274).
EventKeys == {"log", "game_connected"}

\* GodotClient.__init__ / CodotServer.__init__
Construct ==
    /\ godot_client = 1
    /\ tools = {}
    /\ event_handlers = [c \in Clients |-> [e \in EventKeys |-> <<>>]]
    /\ invoked = <<>>
    /\ websocket = [c \in Clients |-> None]
    /\ receive_task = [c \in Clients |-> None]
    /\ pending_requests = [c \in Clients |-> {}]
    /\ fut = [r \in Rids |-> "unborn"]
    /\ futVal = [r \in Rids |-> NoFrame]
    /\ connState = [k \in Conns |-> "unused"]
    /\ closeCalled = [k \in Conns |-> FALSE]
    /\ inbox = [k \in Conns |-> <<>>]
    /\ wire = [k \in Conns |-> {}]
    /\ odd = [k \in Conns |-> {}]
    /\ task = [t \in Tasks |-> NoTask]
    /\ proc = [p \in Procs |-> NewProc]

\* The process as started with CODOT_ENABLE_ALL_TOOLS unset (server.py 49).
Init == ENABLE_ALL_TOOLS = FALSE /\ Construct

\* ------------------------------------------------------------- helpers
\* The record of a caller that enters operation `op` (a client method called
\* directly when tool = "none", otherwise on behalf of gateway tool `tool`).
Enter(op, tool, c) == [NewProc EXCEPT !.op = op, !.tool = tool, !.cl = c]

\* Caller p's operation (record `rec`) ends: it returns `res` (with frame `f`
\* when the result is a response envelope) or raises.
Finish(p, rec, out, res, f) ==
    proc' = [proc EXCEPT ![p] =
                [rec EXCEPT !.pc = "done", !.aux = None, !.command = "",
                            !.out = out, !.res = res, !.frame = f]]

Return(p, rec, res) == Finish(p, rec, "returned", res, NoFrame)

\* Caller p suspends at the point its record `rec` names.
Suspend(p, rec) == proc' = [proc EXCEPT ![p] = rec]

\* Callers invoke their operations one after the other (any number of them
\* may then be in progress at once).
CanStart(p) ==
    /\ proc[p].pc = "new"
    /\ \A q \in Procs : q < p => proc[q].pc # "new"

\* Result of a failed connect() as seen by its caller: the bool itself for a
\* direct call, the gateway's result dict for godot_connect (server.py 234-241)
\* and for the auto-connect of a command tool (server.py 267-274).
ConnectFailedResult(tool) ==
    CASE tool.name = "none" -> "False"
      [] tool.name = "godot_connect" -> "CONNECTION_FAILED"
      [] OTHER -> "NOT_CONNECTED"

\* Faulty variant: the future is registered before the connection is tested,
\* so a call on a disconnected client leaves an entry behind.
SendCommandEnterRegistersFirst(p, tool, c, ws, cs) ==
    /\ fut' = [fut EXCEPT ![p] = "pending"]
    /\ pending_requests' = [pending_requests EXCEPT ![c] = @ \cup {p}]
    /\ IF ~(ws[c] # None /\ cs[ws[c]] = "open")
       THEN Return(p, Enter("send_command", tool, c), "NOT_CONNECTED")
       ELSE Suspend(p, [Enter("send_command", tool, c) EXCEPT
                            !.pc = "sending", !.aux = ws[c],
                            !.command = CommandArg(tool)])

\* send_command up to its first await (godot_client.py 161-183): the
\* NOT_CONNECTED early return, else a fresh identifier, a future registered
\* under it, and the send started on the client's current connection.
\* `ws` and `cs` are the websocket map and the connection states the call sees.
\* The timeout (30.0 by default, or the caller's) is any positive duration.
SendCommandEnter(p, tool, c, ws, cs) ==
    IF ~(ws[c] # None /\ cs[ws[c]] = "open")
    THEN /\ Return(p, Enter("send_command", tool, c), "NOT_CONNECTED")
         /\ UNCHANGED <<pending_requests, fut>>
    ELSE /\ fut' = [fut EXCEPT ![p] = "pending"]
         /\ pending_requests' = [pending_requests EXCEPT ![c] = @ \cup {p}]
         /\ Suspend(p, [Enter("send_command", tool, c) EXCEPT
                            !.pc = "sending", !.aux = ws[c],
                            !.command = CommandArg(tool)])

\* ------------------------------------------------------------- connect
\* Faulty variant: lines 92-93 (the is_connected early return) left out.
ConnectEnterNoGuard(p, tool, c) ==
    /\ Suspend(p, [Enter("connect", tool, c) EXCEPT !.pc = "connecting"])
    /\ UNCHANGED <<serverVars, eventVars, clientVars, fut, futVal, hostVars, task>>

\* GodotClient.connect, lines 92-99: the is_connected early return, else the
\* caller suspends in websockets.connect.
ConnectEnter(p, tool, c) ==
    /\ IF is_connected(c)
       THEN Return(p, Enter("connect", tool, c), "True")
       ELSE Suspend(p, [Enter("connect", tool, c) EXCEPT !.pc = "connecting"])
    /\ UNCHANGED <<serverVars, eventVars, clientVars, fut, futVal, hostVars, task>>

Connect(p, c) ==
    /\ CanStart(p)
    /\ ConnectEnter(p, NoTool, c)

\* connect, lines 96-105: websockets.connect has returned a new connection;
\* the handle is stored and the receive task is created (it first runs later).
\* A command tool that auto-connected goes on into send_command at once
\* (server.py 266-277), on whatever client the gateway holds by then.
ConnectOk(p) ==
    LET c == proc[p].cl
        tool == proc[p].tool
        ws == [websocket EXCEPT ![c] = p]
        cs == [connState EXCEPT ![p] = "open"]
    IN  /\ proc[p].pc = "connecting"
        /\ websocket' = ws
        /\ connState' = cs
        /\ receive_task' = [receive_task EXCEPT ![c] = p]
        /\ task' = [task EXCEPT ![p] = [NoTask EXCEPT !.st = "created", !.cl = c]]
        /\ IF IsCommandTool(tool)
           THEN SendCommandEnter(p, tool, godot_client, ws, cs)
           ELSE /\ Return(p, proc[p],
                          IF tool = NoTool THEN "True" ELSE "Connected")
                /\ UNCHANGED <<pending_requests, fut>>
        /\ UNCHANGED <<serverVars, eventVars, futVal, closeCalled, inbox, wire,
                       odd>>

\* connect, lines 107-115: the ways an attempt fails: wait_for timed out,
\* the peer refused the connection, or anything else was raised.
ConnectErrors == {"timeout", "refused", "error"}

\* Faulty variant: the handle is stored before the attempt is known to have
\* succeeded, and a failure leaves it behind.
ConnectFailKeepsHandle(p) ==
    /\ proc[p].pc = "connecting"
    /\ \E why \in ConnectErrors : connState' = [connState EXCEPT ![p] = why]
    /\ websocket' = [websocket EXCEPT ![proc[p].cl] = p]
    /\ Return(p, proc[p], ConnectFailedResult(proc[p].tool))
    /\ UNCHANGED <<serverVars, eventVars, receive_task, pending_requests, fut,
                   futVal, closeCalled, inbox, wire, odd, task>>

\* connect, lines 107-115: each `except` branch logs its own text and returns
\* False.  The attempt made for caller p is remembered by how it ended.
ConnectFail(p) ==
    /\ proc[p].pc = "connecting"
    /\ \E why \in ConnectErrors : connState' = [connState EXCEPT ![p] = why]
    /\ Return(p, proc[p], ConnectFailedResult(proc[p].tool))
    /\ UNCHANGED <<serverVars, eventVars, clientVars, fut, futVal, closeCalled,
                   inbox, wire, odd, task>>

\* ------------------------------------------------------------- disconnect
\* disconnect, lines 136-140: cancel every pending future that is not done
\* and clear the map.
CancelPending(c) ==
    /\ fut' = [r \in Rids |->
                 IF r \in pending_requests[c] /\ fut[r] = "pending"
                 THEN "cancelled" ELSE fut[r]]
    /\ pending_requests' = [pending_requests EXCEPT ![c] = {}]

\* Faulty variant: line 132 (`if self.websocket:`) left out, so close() is
\* called on None when no handle is held and AttributeError is raised before
\* the cleanup.
DisconnectWebsocketNoGuard(p, rec, c) ==
    IF websocket[c] # None
    THEN /\ connState' = [connState EXCEPT ![websocket[c]] = "closed"]
         /\ closeCalled' = [closeCalled EXCEPT ![websocket[c]] = TRUE]
         /\ Suspend(p, [rec EXCEPT !.pc = "disc_await_close", !.aux = None])
         /\ UNCHANGED <<websocket, pending_requests, fut>>
    ELSE /\ Finish(p, rec, "raised", "AttributeError", NoFrame)
         /\ UNCHANGED <<websocket, connState, closeCalled, pending_requests,
                        fut>>

\* disconnect, lines 132-142, entered with the receive-task part done:
\* close() is called (and awaited) only when a handle is still present.
DisconnectWebsocket(p, rec, c) ==
    IF websocket[c] # None
    THEN /\ connState' = [connState EXCEPT ![websocket[c]] = "closed"]
         /\ closeCalled' = [closeCalled EXCEPT ![websocket[c]] = TRUE]
         /\ Suspend(p, [rec EXCEPT !.pc = "disc_await_close", !.aux = None])
         /\ UNCHANGED <<websocket, pending_requests, fut>>
    ELSE /\ CancelPending(c)
         /\ Return(p, rec, "None")
         /\ UNCHANGED <<websocket, connState, closeCalled>>

\* disconnect, lines 124-127: cancel the receive task and await it.  Awaiting
\* a task that is already done does not suspend.
DisconnectEnter(p, tool, c) ==
    LET t == receive_task[c]
        rec == [Enter("disconnect", tool, c) EXCEPT !.ws0 = websocket[c]]
    IN  /\ IF t # None /\ LiveTask(t)
           THEN /\ task' = [task EXCEPT ![t].cancelReq = TRUE]
                /\ Suspend(p, [rec EXCEPT !.pc = "disc_await_task", !.aux = t])
                /\ UNCHANGED <<clientVars, fut, connState, closeCalled>>
           ELSE /\ receive_task' = [receive_task EXCEPT ![c] = None]
                /\ DisconnectWebsocket(p, rec, c)
                /\ UNCHANGED task
        /\ UNCHANGED <<serverVars, eventVars, futVal, inbox, wire, odd>>

Disconnect(p, c) ==
    /\ CanStart(p)
    /\ DisconnectEnter(p, NoTool, c)

\* disconnect, lines 127-134: the awaited receive task has stopped.
DisconnectTaskDone(p) ==
    LET c == proc[p].cl
    IN  /\ proc[p].pc = "disc_await_task"
        /\ ~LiveTask(proc[p].aux)
        /\ receive_task' = [receive_task EXCEPT ![c] = None]
        /\ DisconnectWebsocket(p, proc[p], c)
        /\ UNCHANGED <<serverVars, eventVars, futVal, inbox, wire, odd, task>>

\* disconnect, lines 133-142: close() has returned.
DisconnectClosed(p) ==
    LET c == proc[p].cl
    IN  /\ proc[p].pc = "disc_await_close"
        /\ websocket' = [websocket EXCEPT ![c] = None]
        /\ CancelPending(c)
        /\ Return(p, proc[p], "None")
        /\ UNCHANGED <<serverVars, eventVars, receive_task, futVal, hostVars, task>>

\* ------------------------------------------------------------- send_command
SendCommand(p, c) ==
    /\ CanStart(p)
    /\ SendCommandEnter(p, NoTool, c, websocket, connState)
    /\ UNCHANGED <<serverVars, eventVars, websocket, receive_task, futVal, hostVars,
                   task>>

\* send_command, lines 183-187: websocket.send has returned, the request frame
\* is on the wire, and the caller suspends in wait_for(future, timeout).
SendDone(p) ==
    /\ proc[p].pc = "sending"
    /\ connState[proc[p].aux] = "open"
    /\ wire' = [wire EXCEPT ![proc[p].aux] = @ \cup {p}]
    /\ Suspend(p, [proc[p] EXCEPT !.pc = "waiting", !.aux = None])
    /\ UNCHANGED <<serverVars, eventVars, clientVars, fut, futVal, connState,
                   closeCalled, inbox, odd, task>>

\* send_command, lines 199-208: websocket.send raised ConnectionClosed.
SendConnectionClosed(p) ==
    LET c == proc[p].cl
    IN  /\ proc[p].pc = "sending"
        /\ connState[proc[p].aux] = "closed"
        /\ pending_requests' = [pending_requests EXCEPT ![c] = @ \ {p}]
        /\ websocket' = [websocket EXCEPT ![c] = None]
        /\ Return(p, [proc[p] EXCEPT !.due = FALSE], "CONNECTION_CLOSED")
        /\ UNCHANGED <<serverVars, eventVars, receive_task, fut, futVal, hostVars, task>>

\* send_command, lines 209-217: json.dumps or websocket.send raised another
\* exception.
SendError(p) ==
    LET c == proc[p].cl
    IN  /\ proc[p].pc = "sending"
        /\ pending_requests' = [pending_requests EXCEPT ![c] = @ \ {p}]
        /\ Return(p, [proc[p] EXCEPT !.due = FALSE], "SEND_ERROR")
        /\ UNCHANGED <<serverVars, eventVars, websocket, receive_task, fut, futVal,
                       hostVars, task>>

\* Faulty variant: the envelope is interpreted: a host-domain error envelope
\* is turned into an error of the client's own.
CallReturnInterprets(p) ==
    /\ proc[p].pc = "waiting"
    /\ fut[p] = "result"
    /\ IF futVal[p].ok
       THEN Finish(p, [proc[p] EXCEPT !.due = FALSE], "returned", "response",
                   futVal[p])
       ELSE Finish(p, [proc[p] EXCEPT !.due = FALSE], "returned",
                   "COMMAND_FAILED", NoFrame)
    /\ futVal' = [futVal EXCEPT ![p] = NoFrame]
    /\ UNCHANGED <<serverVars, eventVars, clientVars, fut, hostVars, task>>

\* send_command, lines 187-188: the future holds a result; wait_for returns it
\* and send_command returns it to the caller.
CallReturn(p) ==
    /\ proc[p].pc = "waiting"
    /\ fut[p] = "result"
    /\ Finish(p, [proc[p] EXCEPT !.due = FALSE], "returned", "response",
              futVal[p])
    /\ futVal' = [futVal EXCEPT ![p] = NoFrame]
    /\ UNCHANGED <<serverVars, eventVars, clientVars, fut, hostVars, task>>

\* send_command, line 187: the awaited future was cancelled (by disconnect):
\* wait_for raises CancelledError, which is a BaseException: neither
\* `except Exception` of send_command (line 209) nor that of call_tool
\* (server.py 183) catches it, so it leaves the operation.
CallCancelled(p) ==
    /\ proc[p].pc = "waiting"
    /\ fut[p] = "cancelled"
    /\ Finish(p, [proc[p] EXCEPT !.due = FALSE], "raised",
              "CancelledError", NoFrame)
    /\ UNCHANGED <<serverVars, eventVars, clientVars, fut, futVal, hostVars, task>>

\* send_command, lines 183-187: the task running the call is cancelled by
\* its own caller while it is suspended in websocket.send or in wait_for.
\* wait_for cancels the future it awaits; CancelledError is raised at the
\* await and passes every `except` clause of send_command (190-217), none
\* of which pops the entry.
CallerCancel(p) ==
    /\ proc[p].pc \in {"sending", "waiting"}
    /\ fut' = IF proc[p].pc = "waiting" /\ fut[p] = "pending"
              THEN [fut EXCEPT ![p] = "cancelled"] ELSE fut
    /\ Finish(p, [proc[p] EXCEPT !.due = FALSE], "raised",
              "CancelledError", NoFrame)
    /\ UNCHANGED <<serverVars, eventVars, clientVars, futVal, hostVars, task>>

\* asyncio.wait_for, line 187: the timeout elapsed with the future not done:
\* wait_for cancels the future; the caller resumes in a later loop iteration.
TimerFire(p) ==
    /\ proc[p].pc = "waiting"
    /\ fut[p] = "pending"
    /\ proc[p].due
    /\ fut' = [fut EXCEPT ![p] = "cancelled"]
    /\ Suspend(p, [proc[p] EXCEPT !.pc = "timedout"])
    /\ UNCHANGED <<serverVars, eventVars, clientVars, futVal, hostVars, task>>

\* Faulty variant: line 191 (the pop of the timed-out entry) left out.
CallTimeoutKeepsEntry(p) ==
    /\ proc[p].pc = "timedout"
    /\ Return(p, proc[p], "TIMEOUT")
    /\ UNCHANGED <<serverVars, eventVars, clientVars, fut, futVal, hostVars, task>>

\* Faulty variant: a timeout gives up on the whole map, not on its own entry.
CallTimeoutClearsMap(p) ==
    LET c == proc[p].cl
    IN  /\ proc[p].pc = "timedout"
        /\ pending_requests' = [pending_requests EXCEPT ![c] = {}]
        /\ Return(p, proc[p], "TIMEOUT")
        /\ UNCHANGED <<serverVars, eventVars, websocket, receive_task, fut, futVal,
                       hostVars, task>>

\* send_command, lines 190-198: TimeoutError: drop the entry, return TIMEOUT.
CallTimeout(p) ==
    LET c == proc[p].cl
    IN  /\ proc[p].pc = "timedout"
        /\ pending_requests' = [pending_requests EXCEPT ![c] = @ \ {p}]
        /\ Return(p, proc[p], "TIMEOUT")
        /\ UNCHANGED <<serverVars, eventVars, websocket, receive_task, fut, futVal,
                       hostVars, task>>

\* The clock: the timeout of caller p's wait_for elapses.
TimeoutElapses(p) ==
    /\ proc[p].pc = "waiting"
    /\ ~proc[p].due
    /\ Suspend(p, [proc[p] EXCEPT !.due = TRUE])
    /\ UNCHANGED <<serverVars, eventVars, clientVars, fut, futVal, hostVars, task>>

\* ------------------------------------------------------------- receive loop
\* _handle_message, lines 254-256: the response branch is taken when the
\* type is "response" or the frame has an "id".
IsResponseBranch(f) == f.type = "response" \/ f.id # None

\* _handle_message, lines 258-259: the id is present and is a pending key.
Matches(c, f) == f.id # None /\ f.id \in pending_requests[c]

\* _handle_message, lines 264-270: the event key an event type is emitted as.
EventKey(type) == IF type = "log_event" THEN "log" ELSE type

\* list.remove(h): the list without its first occurrence of h.
RECURSIVE Remove(_, _)
Remove(hs, h) ==
    IF hs = <<>> THEN <<>>
    ELSE IF Head(hs) = h THEN Tail(hs)
    ELSE <<Head(hs)>> \o Remove(Tail(hs), h)

\* _emit_event, lines 311-319: the `for` statement walks the subscription
\* list itself by position.  A handler is called and whatever Exception it
\* raises is caught and logged; a "once" handler unsubscribes itself
\* (off_event) while it runs, which shortens the list being walked; a "slow"
\* handler is a coroutine function that suspends, and the walk stops in its
\* `await` (line 315).  The result is the list left behind, the handlers
\* called, in order, and the position the walk resumes at (0 when it is over).
RECURSIVE EmitFrom(_, _, _)
EmitFrom(hs, i, called) ==
    IF i > Len(hs) THEN [handlers |-> hs, called |-> called, next |-> 0]
    ELSE IF hs[i] = "slow"
    THEN [handlers |-> hs, called |-> Append(called, "slow"), next |-> i + 1]
    ELSE EmitFrom(IF hs[i] = "once" THEN Remove(hs, "once") ELSE hs,
                  i + 1, Append(called, hs[i]))

\* Handling frame f suspends the receive loop of client c in a handler.
Suspends(c, f) ==
    /\ ~IsResponseBranch(f) /\ f.type \in MsgTypes
    /\ EmitFrom(event_handlers[c][EventKey(f.type)], 1, <<>>).next # 0

emit_event(c, e) ==
    LET r == EmitFrom(event_handlers[c][e], 1, <<>>)
    IN  /\ event_handlers' = [event_handlers EXCEPT ![c][e] = r.handlers]
        /\ invoked' = r.called

\* Faulty variant: a correlator that ignores the id and resolves the oldest
\* pending request with whatever response frame arrives.
HandleMessageOldest(c, f) ==
    IF IsResponseBranch(f) /\ f.id # None /\ pending_requests[c] # {}
    THEN LET r == CHOOSE x \in pending_requests[c] :
                      \A y \in pending_requests[c] : x <= y
         IN  /\ pending_requests' = [pending_requests EXCEPT ![c] = @ \ {r}]
             /\ IF fut[r] = "pending"
                THEN /\ fut' = [fut EXCEPT ![r] = "result"]
                     /\ futVal' = [futVal EXCEPT ![r] = f]
                ELSE UNCHANGED <<fut, futVal>>
             /\ invoked' = <<>> /\ UNCHANGED event_handlers
    ELSE /\ invoked' = <<>>
         /\ UNCHANGED <<pending_requests, fut, futVal, event_handlers>>

\* Faulty variant: line 261 (`if not future.done()`) left out, so a future
\* that wait_for already cancelled is resolved again.
HandleMessageNoDoneCheck(c, f) ==
    IF IsResponseBranch(f) /\ Matches(c, f)
    THEN /\ pending_requests' = [pending_requests EXCEPT ![c] = @ \ {f.id}]
         /\ fut' = [fut EXCEPT ![f.id] = "result"]
         /\ futVal' = [futVal EXCEPT ![f.id] = f]
         /\ invoked' = <<>> /\ UNCHANGED event_handlers
    ELSE /\ invoked' = <<>>
         /\ UNCHANGED <<pending_requests, fut, futVal, event_handlers>>

\* Faulty variant: the type is looked at first, so a frame with an event
\* type is emitted as an event even when its id is a pending key.
HandleMessageTypeFirst(c, f) ==
    IF f.type = "response"
    THEN /\ IF Matches(c, f)
            THEN /\ pending_requests' =
                        [pending_requests EXCEPT ![c] = @ \ {f.id}]
                 /\ IF fut[f.id] = "pending"
                    THEN /\ fut' = [fut EXCEPT ![f.id] = "result"]
                         /\ futVal' = [futVal EXCEPT ![f.id] = f]
                    ELSE UNCHANGED <<fut, futVal>>
            ELSE UNCHANGED <<pending_requests, fut, futVal>>
         /\ invoked' = <<>> /\ UNCHANGED event_handlers
    ELSE /\ emit_event(c, EventKey(f.type))
         /\ UNCHANGED <<pending_requests, fut, futVal>>

\* Faulty variant: the chain of `elif` ends in a catch-all that emits a
\* frame of any other type as a "log" event.
HandleMessageCatchAll(c, f) ==
    IF IsResponseBranch(f)
    THEN /\ IF Matches(c, f)
            THEN /\ pending_requests' =
                        [pending_requests EXCEPT ![c] = @ \ {f.id}]
                 /\ IF fut[f.id] = "pending"
                    THEN /\ fut' = [fut EXCEPT ![f.id] = "result"]
                         /\ futVal' = [futVal EXCEPT ![f.id] = f]
                    ELSE UNCHANGED <<fut, futVal>>
            ELSE UNCHANGED <<pending_requests, fut, futVal>>
         /\ invoked' = <<>> /\ UNCHANGED event_handlers
    ELSE /\ emit_event(c, IF f.type \in MsgTypes THEN EventKey(f.type)
                          ELSE "log")
         /\ UNCHANGED <<pending_requests, fut, futVal>>

\* _handle_message, lines 254-274: the response branch pops a matching
\* pending future and, unless it is already done, resolves it with the frame;
\* a frame that does not take that branch is emitted as its event when its
\* type is one of the event types, and no branch is taken for any other type.
HandleMessage(c, f) ==
    IF IsResponseBranch(f)
    THEN /\ IF Matches(c, f)
            THEN /\ pending_requests' =
                        [pending_requests EXCEPT ![c] = @ \ {f.id}]
                 /\ IF fut[f.id] = "pending"
                    THEN /\ fut' = [fut EXCEPT ![f.id] = "result"]
                         /\ futVal' = [futVal EXCEPT ![f.id] = f]
                    ELSE UNCHANGED <<fut, futVal>>
            ELSE UNCHANGED <<pending_requests, fut, futVal>>
         /\ invoked' = <<>> /\ UNCHANGED event_handlers
    ELSE IF f.type \in MsgTypes
    THEN /\ emit_event(c, EventKey(f.type))
         /\ UNCHANGED <<pending_requests, fut, futVal>>
    ELSE /\ invoked' = <<>>
         /\ UNCHANGED <<pending_requests, fut, futVal, event_handlers>>

\* on_event, lines 276-287: the handler is appended to the key's list.
on_event(c, e, h) ==
    /\ Len(event_handlers[c]["log"]) + Len(event_handlers[c]["game_connected"])
           < MaxHandlers
    /\ event_handlers' = [event_handlers EXCEPT ![c][e] = Append(@, h)]
    /\ UNCHANGED <<serverVars, invoked, clientVars, fut, futVal, hostVars,
                   task, proc>>

\* off_event, lines 289-298, for a handler that is subscribed: its first
\* occurrence is removed.  (For one that is not, list.remove raises
\* ValueError and nothing changes.)
off_event(c, e, h) ==
    /\ \E i \in 1..Len(event_handlers[c][e]) : event_handlers[c][e][i] = h
    /\ event_handlers' = [event_handlers EXCEPT ![c][e] = Remove(@, h)]
    /\ UNCHANGED <<serverVars, invoked, clientVars, fut, futVal, hostVars,
                   task, proc>>

\* off_event, lines 289-298, called by p for a handler that is not in the
\* list its key holds: the key is in the map (line 297), so list.remove
\* (line 298) raises ValueError, which off_event lets through; nothing
\* changes.  (Only a list that is not empty is modelled: the map of the model
\* does not tell a key that was never subscribed to, for which off_event
\* returns, from a key whose list an earlier off_event left empty, for which
\* it raises as well.)
off_event_raises(p, c, e, h) ==
    /\ CanStart(p)
    /\ event_handlers[c][e] # <<>>
    /\ \A i \in 1..Len(event_handlers[c][e]) : event_handlers[c][e][i] # h
    /\ Finish(p, Enter("off_event", NoTool, c), "raised", "ValueError",
              NoFrame)
    /\ UNCHANGED <<serverVars, eventVars, clientVars, fut, futVal, hostVars,
                   task>>

\* _receive_loop, lines 227-228: the task runs for the first time and starts
\* iterating the connection its client holds at that moment; iterating None
\* raises TypeError, which ends the loop through lines 238-241.
TaskStart(t) ==
    LET c == task[t].cl
    IN  /\ task[t].st = "created"
        /\ ~task[t].cancelReq
        /\ task' = IF websocket[c] = None
                   THEN [task EXCEPT ![t].st = "done", ![t].how = "error"]
                   ELSE [task EXCEPT ![t].st = "iter", ![t].conn = websocket[c]]
        /\ UNCHANGED <<serverVars, eventVars, clientVars, fut, futVal, hostVars, proc>>

\* A receive loop that does not await the handlers: it schedules the dispatch
\* and takes the next message while an async handler is still suspended.
TaskReceiveDetached(t) ==
    LET k == task[t].conn
        c == task[t].cl
        m == Head(inbox[k])
    IN  /\ task[t].st \in {"iter", "handling"}
        /\ ~task[t].cancelReq
        /\ inbox[k] # <<>>
        /\ m \notin Malformed
        /\ inbox' = [inbox EXCEPT ![k] = Tail(@)]
        /\ HandleMessage(c, m)
        /\ task' = IF Suspends(c, m) /\ task[t].st = "iter"
                   THEN [task EXCEPT
                           ![t].st = "handling",
                           ![t].key = EventKey(m.type),
                           ![t].pos = EmitFrom(event_handlers[c][
                                          EventKey(m.type)], 1, <<>>).next]
                   ELSE task
        /\ UNCHANGED <<serverVars, websocket, receive_task, connState,
                       closeCalled, wire, odd, proc>>

\* _receive_loop, lines 228-241: the iteration hands over the next message.
\* json.loads raises JSONDecodeError on text that is not JSON, which line 232
\* catches inside the loop; a decoded value that is not an object has no
\* `get`, so line 254 raises AttributeError, which only line 238 catches:
\* the loop is over and `finally` clears the client's handle.  A decoded
\* object is handled by _handle_message.
TaskReceive(t) ==
    LET k == task[t].conn
        c == task[t].cl
        m == Head(inbox[k])
    IN  /\ task[t].st = "iter"
        /\ ~task[t].cancelReq
        /\ inbox[k] # <<>>
        /\ inbox' = [inbox EXCEPT ![k] = Tail(@)]
        /\ CASE m = NotJson ->
                   /\ invoked' = <<>>
                   /\ UNCHANGED <<websocket, pending_requests, fut, futVal,
                                  event_handlers, task>>
             [] m = NotObject ->
                   /\ task' = [task EXCEPT ![t].st = "done",
                                           ![t].how = "error"]
                   /\ websocket' = [websocket EXCEPT ![c] = None]
                   /\ invoked' = <<>>
                   /\ UNCHANGED <<pending_requests, fut, futVal,
                                  event_handlers>>
             [] OTHER ->
                   /\ HandleMessage(c, m)
                   /\ task' = IF Suspends(c, m)
                              THEN [task EXCEPT
                                      ![t].st = "handling",
                                      ![t].key = EventKey(m.type),
                                      ![t].pos =
                                          EmitFrom(event_handlers[c][
                                              EventKey(m.type)], 1, <<>>).next]
                              ELSE task
                   /\ UNCHANGED websocket
        /\ UNCHANGED <<serverVars, receive_task, connState, closeCalled,
                       wire, odd, proc>>

\* _emit_event, lines 312-319, resumed: the async handler the loop was
\* suspended in has completed; the `for` statement goes on from where it is,
\* over the list as it is now, to the next suspension or to the end, where
\* _handle_message returns and the iteration asks for the next message.
HandlerDone(t) ==
    LET c == task[t].cl
        r == EmitFrom(event_handlers[c][task[t].key], task[t].pos, invoked)
    IN  /\ task[t].st = "handling"
        /\ ~task[t].cancelReq
        /\ event_handlers' = [event_handlers EXCEPT ![c][task[t].key] =
                                  r.handlers]
        /\ invoked' = r.called
        /\ task' = IF r.next # 0
                   THEN [task EXCEPT ![t].pos = r.next]
                   ELSE [task EXCEPT ![t].st = "iter", ![t].key = "",
                                     ![t].pos = 0]
        /\ UNCHANGED <<serverVars, clientVars, fut, futVal, hostVars, proc>>

\* _receive_loop, lines 234-241: the connection is closed and drained: the
\* iteration ends and `finally` clears the client's handle.
TaskConnectionClosed(t) ==
    LET k == task[t].conn
    IN  /\ task[t].st = "iter"
        /\ ~task[t].cancelReq
        /\ connState[k] = "closed"
        /\ inbox[k] = <<>>
        /\ task' = [task EXCEPT ![t].st = "done", ![t].how = "closed"]
        /\ websocket' = [websocket EXCEPT ![task[t].cl] = None]
        /\ UNCHANGED <<serverVars, eventVars, receive_task, pending_requests, fut,
                       futVal, hostVars, proc>>

\* _receive_loop, lines 236-241: the task was cancelled by disconnect.  A task
\* that never ran is cancelled without running its body; one suspended in the
\* iteration re-raises CancelledError through `finally`, clearing the handle.
TaskCancelled(t) ==
    /\ LiveTask(t)
    /\ task[t].cancelReq
    /\ task' = [task EXCEPT ![t].st = "done", ![t].how = "cancelled",
                            ![t].conn = None, ![t].cancelReq = FALSE,
                            ![t].key = "", ![t].pos = 0]
    /\ websocket' = IF task[t].st \in {"iter", "handling"}
                    THEN [websocket EXCEPT ![task[t].cl] = None]
                    ELSE websocket
    /\ UNCHANGED <<serverVars, eventVars, receive_task, pending_requests, fut, futVal,
                   hostVars, proc>>

\* ------------------------------------------------------------- host
\* Some receive task reads, or will read, connection k.
HasReader(k) ==
    \E t \in Tasks :
        \/ task[t].st \in {"iter", "handling"} /\ task[t].conn = k
        \/ task[t].st = "created" /\ websocket[task[t].cl] = k

\* Frames the host has sent that no receive loop has taken yet.
RECURSIVE SumLen(_)
SumLen(S) ==
    IF S = {} THEN 0
    ELSE LET k == CHOOSE x \in S : TRUE IN Len(inbox[k]) + SumLen(S \ {k})

InFlight == SumLen(Conns)

\* The host sends a frame on connection k: an answer to a request it received
\* on k (the first, a duplicate or a late one), as a success or an error
\* envelope.
HostSend(k, f) ==
    /\ connState[k] = "open"
    /\ HasReader(k)
    /\ InFlight < MaxInFlight
    /\ f.id \in wire[k]
    /\ inbox' = [inbox EXCEPT ![k] = Append(@, f)]
    /\ UNCHANGED <<serverVars, eventVars, clientVars, fut, futVal, connState,
                   closeCalled, wire, odd, task, proc>>

\* The host broadcasts an event frame on connection k; it may carry an "id"
\* key (that of a request the host received on k) or none.
HostEvent(k, f) ==
    /\ connState[k] = "open"
    /\ HasReader(k)
    /\ InFlight < MaxInFlight
    /\ f.type # "response"
    /\ f.id \in wire[k] \cup {None}
    /\ inbox' = [inbox EXCEPT ![k] = Append(@, f)]
    /\ UNCHANGED <<serverVars, eventVars, clientVars, fut, futVal, connState,
                   closeCalled, wire, odd, task, proc>>

\* The host (or anything else that reaches the socket) sends a message the
\* protocol does not define: a frame of an unknown type (with the id of a
\* request received on k, or none), text that is not JSON, or a JSON value
\* that is not an object.
HostOdd(k, m) ==
    /\ connState[k] = "open"
    /\ HasReader(k)
    /\ InFlight < MaxInFlight
    /\ m.id \in wire[k] \cup {None}
    /\ inbox' = [inbox EXCEPT ![k] = Append(@, m)]
    /\ odd' = [odd EXCEPT ![k] = @ \cup {m.type}]
    /\ UNCHANGED <<serverVars, eventVars, clientVars, fut, futVal, connState,
                   closeCalled, wire, task, proc>>

\* The host (or the network) closes the connection.
HostClose(k) ==
    /\ connState[k] = "open"
    /\ connState' = [connState EXCEPT ![k] = "closed"]
    /\ UNCHANGED <<serverVars, eventVars, clientVars, fut, futVal, closeCalled, inbox,
                   wire, odd, task, proc>>

\* ------------------------------------------------------------- gateway
\* call_tool inputs: the three connection tools, a registered command, a
\* godot_-prefixed name that is not registered, and a name without the prefix.
ToolCall(n) == [name |-> n, arguments |-> {}]

Tools == {ToolCall("godot_connection_status"), ToolCall("godot_connect"),
          ToolCall("godot_disconnect"), ToolCall("godot_ping"),
          ToolCall("godot_no_such_command"), ToolCall("ping")}

\* Command invocations over the whole registry sample, with the required
\* arguments supplied, and one that leaves a required argument out.
RequiredOf(n) ==
    IF cmd_name[n] \in DOMAIN COMMANDS THEN COMMANDS[cmd_name[n]].required
    ELSE {}

CommandCalls ==
    {[name |-> n, arguments |-> RequiredOf(n)] : n \in DOMAIN cmd_name}
        \cup {[name |-> "godot_subscribe", arguments |-> {"client_id"}]}

\* The filters of list_tools, server.py 149-153: the registry keys that are
\* advertised.
ListedCommands ==
    {n \in DOMAIN COMMANDS :
        /\ ~(~ENABLE_ALL_TOOLS /\ n \in DISABLED_COMMANDS)
        /\ COMMANDS[n].enabled}

\* The connection tools of list_tools (server.py 104, 115, 137).
MetaTools == {"godot_connection_status", "godot_connect", "godot_disconnect"}

\* Faulty variant: the `godot_` prefix is tested before the names of the
\* connection tools, so they are looked up in the registry like commands.
CallToolPrefixFirst(p, tool) ==
    /\ CanStart(p)
    /\ CASE tool.name \in MetaTools ->
              /\ Return(p, Enter("none", tool, None), "UNKNOWN_COMMAND")
              /\ UNCHANGED <<serverVars, eventVars, clientVars, fut, futVal,
                             hostVars, task>>
         [] tool.name = "godot_connection_status" ->
              /\ Return(p, Enter("status", tool, godot_client),
                        IF is_connected(godot_client)
                        THEN "connected" ELSE "disconnected")
              /\ UNCHANGED <<serverVars, eventVars, clientVars, fut, futVal,
                             hostVars, task>>
         [] tool.name = "godot_connect" ->
              /\ godot_client' = p + 1
              /\ Suspend(p, [Enter("connect", tool, p + 1) EXCEPT
                                 !.pc = "connecting"])
              /\ UNCHANGED <<ENABLE_ALL_TOOLS, tools, eventVars, clientVars,
                             fut, futVal, hostVars, task>>
         [] tool.name = "godot_disconnect" ->
              DisconnectEnter(p, tool, godot_client)
         [] IsCommandTool(tool) ->
              IF cmd_name[tool.name] \notin DOMAIN COMMANDS
              THEN /\ Return(p, Enter("none", tool, None), "UNKNOWN_COMMAND")
                   /\ UNCHANGED <<serverVars, eventVars, clientVars, fut,
                                  futVal, hostVars, task>>
              ELSE IF ~is_connected(godot_client)
              THEN ConnectEnter(p, tool, godot_client)
              ELSE /\ SendCommandEnter(p, tool, godot_client, websocket,
                                       connState)
                   /\ UNCHANGED <<serverVars, eventVars, websocket,
                                  receive_task, futVal, hostVars, task>>
         [] OTHER ->
              /\ Return(p, Enter("none", tool, None), "UNKNOWN_TOOL")
              /\ UNCHANGED <<serverVars, eventVars, clientVars, fut, futVal,
                             hostVars, task>>

\* Faulty variant: the connection is ensured before the name is looked up,
\* so an unregistered name starts a connect attempt.
CallToolConnectsFirst(p, tool) ==
    /\ CanStart(p)
    /\ CASE tool.name = "godot_connection_status" ->
              /\ Return(p, Enter("status", tool, godot_client),
                        IF is_connected(godot_client)
                        THEN "connected" ELSE "disconnected")
              /\ UNCHANGED <<serverVars, eventVars, clientVars, fut, futVal,
                             hostVars, task>>
         [] tool.name = "godot_connect" ->
              /\ godot_client' = p + 1
              /\ Suspend(p, [Enter("connect", tool, p + 1) EXCEPT
                                 !.pc = "connecting"])
              /\ UNCHANGED <<ENABLE_ALL_TOOLS, tools, eventVars, clientVars,
                             fut, futVal, hostVars, task>>
         [] tool.name = "godot_disconnect" ->
              DisconnectEnter(p, tool, godot_client)
         [] IsCommandTool(tool) ->
              IF ~is_connected(godot_client)
              THEN ConnectEnter(p, tool, godot_client)
              ELSE IF cmd_name[tool.name] \notin DOMAIN COMMANDS
              THEN /\ Return(p, Enter("none", tool, None), "UNKNOWN_COMMAND")
                   /\ UNCHANGED <<serverVars, eventVars, clientVars, fut,
                                  futVal, hostVars, task>>
              ELSE /\ SendCommandEnter(p, tool, godot_client, websocket,
                                       connState)
                   /\ UNCHANGED <<serverVars, eventVars, websocket,
                                  receive_task, futVal, hostVars, task>>
         [] OTHER ->
              /\ Return(p, Enter("none", tool, None), "UNKNOWN_TOOL")
              /\ UNCHANGED <<serverVars, eventVars, clientVars, fut, futVal,
                             hostVars, task>>

\* Faulty variant: a name is looked up among the advertised commands only.
CallToolListedOnly(p, tool) ==
    /\ CanStart(p)
    /\ CASE tool.name = "godot_connection_status" ->
              /\ Return(p, Enter("status", tool, godot_client),
                        IF is_connected(godot_client)
                        THEN "connected" ELSE "disconnected")
              /\ UNCHANGED <<serverVars, eventVars, clientVars, fut, futVal,
                             hostVars, task>>
         [] tool.name = "godot_connect" ->
              /\ godot_client' = p + 1
              /\ Suspend(p, [Enter("connect", tool, p + 1) EXCEPT
                                 !.pc = "connecting"])
              /\ UNCHANGED <<ENABLE_ALL_TOOLS, tools, eventVars, clientVars,
                             fut, futVal, hostVars, task>>
         [] tool.name = "godot_disconnect" ->
              DisconnectEnter(p, tool, godot_client)
         [] IsCommandTool(tool) ->
              IF cmd_name[tool.name] \notin ListedCommands
              THEN /\ Return(p, Enter("none", tool, None), "UNKNOWN_COMMAND")
                   /\ UNCHANGED <<serverVars, eventVars, clientVars, fut,
                                  futVal, hostVars, task>>
              ELSE IF ~is_connected(godot_client)
              THEN ConnectEnter(p, tool, godot_client)
              ELSE /\ SendCommandEnter(p, tool, godot_client, websocket,
                                       connState)
                   /\ UNCHANGED <<serverVars, eventVars, websocket,
                                  receive_task, futVal, hostVars, task>>
         [] OTHER ->
              /\ Return(p, Enter("none", tool, None), "UNKNOWN_TOOL")
              /\ UNCHANGED <<serverVars, eventVars, clientVars, fut, futVal,
                             hostVars, task>>

\* call_tool / _handle_tool_call, server.py 180-286, up to the first await.
CallTool(p, tool) ==
    /\ CanStart(p)
    /\ CASE tool.name = "godot_connection_status" ->
              /\ Return(p, Enter("status", tool, godot_client),
                        IF is_connected(godot_client)
                        THEN "connected" ELSE "disconnected")
              /\ UNCHANGED <<serverVars, eventVars, clientVars, fut, futVal,
                             hostVars, task>>
         [] tool.name = "godot_connect" ->
              /\ godot_client' = p + 1
              /\ Suspend(p, [Enter("connect", tool, p + 1) EXCEPT
                                 !.pc = "connecting"])
              /\ UNCHANGED <<ENABLE_ALL_TOOLS, tools, eventVars, clientVars,
                             fut, futVal, hostVars, task>>
         [] tool.name = "godot_disconnect" ->
              DisconnectEnter(p, tool, godot_client)
         [] IsCommandTool(tool) ->
              IF cmd_name[tool.name] \notin DOMAIN COMMANDS
              THEN /\ Return(p, Enter("none", tool, None), "UNKNOWN_COMMAND")
                   /\ UNCHANGED <<serverVars, eventVars, clientVars, fut,
                                  futVal, hostVars, task>>
              ELSE IF ~is_connected(godot_client)
              THEN ConnectEnter(p, tool, godot_client)
              ELSE /\ SendCommandEnter(p, tool, godot_client, websocket,
                                       connState)
                   /\ UNCHANGED <<serverVars, eventVars, websocket,
                                  receive_task, futVal, hostVars, task>>
         [] OTHER ->
              /\ Return(p, Enter("none", tool, None), "UNKNOWN_TOOL")
              /\ UNCHANGED <<serverVars, eventVars, clientVars, fut, futVal,
                             hostVars, task>>

\* list_tools, server.py 89-161: the three connection tools, then every
\* registered command that passes the two filters.
\* f"godot_{cmd_name}" (server.py 156).
ToolName(n) == CHOOSE t \in DOMAIN cmd_name : cmd_name[t] = n

list_tools ==
    /\ tools' = MetaTools \cup {ToolName(n) : n \in ListedCommands}
    /\ UNCHANGED <<godot_client, ENABLE_ALL_TOOLS, eventVars, clientVars, fut,
                   futVal, hostVars, task, proc>>

\* ------------------------------------------------------------- specification
\* The steps that continue an operation, the receive tasks, the clock, the host.
Continue ==
    \/ \E p \in Procs : ConnectOk(p)
    \/ \E p \in Procs : ConnectFail(p)
    \/ \E p \in Procs : DisconnectTaskDone(p)
    \/ \E p \in Procs : DisconnectClosed(p)
    \/ \E p \in Procs : SendDone(p)
    \/ \E p \in Procs : SendConnectionClosed(p)
    \/ \E p \in Procs : SendError(p)
    \/ \E p \in Procs : CallReturn(p)
    \/ \E p \in Procs : CallCancelled(p)
    \/ \E p \in Procs : TimerFire(p)
    \/ \E p \in Procs : CallTimeout(p)
    \/ \E p \in Procs : TimeoutElapses(p)
    \/ \E t \in Tasks : TaskStart(t)
    \/ \E t \in Tasks : TaskReceive(t)
    \/ \E t \in Tasks : TaskConnectionClosed(t)
    \/ \E t \in Tasks : TaskCancelled(t)
    \/ \E k \in Conns, f \in ResponseFrames : HostSend(k, f)
    \/ \E k \in Conns : HostClose(k)

\* One GodotClient used directly by concurrent callers.
Next ==
    \/ \E p \in Procs : Connect(p, 1)
    \/ \E p \in Procs : Disconnect(p, 1)
    \/ \E p \in Procs : SendCommand(p, 1)
    \/ Continue

Spec == Init /\ [][Next]_vars

\* The gateway: concurrent call_tool invocations (one fewer than the callers
\* of a bare client: each may connect and send in one invocation).
FewProcs == 1..(NProcs - 1)

GatewayNext ==
    \/ \E p \in FewProcs, tool \in Tools : CallTool(p, tool)
    \/ Continue

GatewaySpec == Init /\ [][GatewayNext]_vars


\* One GodotClient used directly, with the scheduling the asyncio loop
\* guarantees: time passes, every timer that is due fires and every task
\* that is ready runs.
FairNext ==
    \/ Connect(1, 1)
    \/ \E p \in Procs \ {1} : Disconnect(p, 1)
    \/ \E p \in Procs \ {1} : SendCommand(p, 1)
    \/ Continue

FairSpec ==
    /\ Init /\ [][FairNext]_vars
    /\ \A p \in Procs :
           WF_vars(TimeoutElapses(p)) /\ WF_vars(TimerFire(p))
               /\ WF_vars(CallTimeout(p))

\* The command registry: tool listings and command invocations over the
\* registry sample, started with either setting of CODOT_ENABLE_ALL_TOOLS,
\* up to the point where the request is on the wire.
RegistryInit == ENABLE_ALL_TOOLS \in BOOLEAN /\ Construct

RegistryNext ==
    \/ list_tools
    \/ \E p \in FewProcs, tool \in CommandCalls : CallTool(p, tool)
    \/ \E p \in Procs : ConnectOk(p)
    \/ \E p \in Procs : ConnectFail(p)
    \/ \E p \in Procs : SendDone(p)
    \/ \E t \in Tasks : TaskStart(t)

RegistrySpec == RegistryInit /\ [][RegistryNext]_vars

\* Events: one client with subscriptions, calls in progress, and a host that
\* stays connected and sends responses and event frames.
Handlers == {"ok", "raises", "once"}
EventFrames == {f \in Frames : f.type # "response" /\ f.ok}
OkResponses == {f \in ResponseFrames : f.ok}

EventNext ==
    \/ Connect(1, 1)
    \/ SendCommand(2, 1)
    \/ \E e \in EventKeys, h \in Handlers : on_event(1, e, h)
    \/ \E e \in EventKeys, h \in Handlers : off_event(1, e, h)
    \/ \E p \in Procs : ConnectOk(p)
    \/ \E p \in Procs : ConnectFail(p)
    \/ \E p \in Procs : SendDone(p)
    \/ \E p \in Procs : CallReturn(p)
    \/ \E t \in Tasks : TaskStart(t)
    \/ \E t \in Tasks : TaskReceive(t)
    \/ \E k \in Conns, f \in OkResponses : HostSend(k, f)
    \/ \E k \in Conns, f \in EventFrames : HostEvent(k, f)

EventSpec == Init /\ [][EventNext]_vars

\* Protocol errors: one client with subscriptions and a call in progress, and
\* a host that also sends frames of an unknown type and messages that are no
\* frames.
OddFrames == {f \in UnknownFrames : f.ok}

ProtocolNext ==
    \/ Connect(1, 1)
    \/ SendCommand(2, 1)
    \/ \E e \in EventKeys : on_event(1, e, "ok")
    \/ \E p \in Procs : ConnectOk(p)
    \/ \E p \in Procs : ConnectFail(p)
    \/ \E p \in Procs : SendDone(p)
    \/ \E p \in Procs : CallReturn(p)
    \/ \E t \in Tasks : TaskStart(t)
    \/ \E t \in Tasks : TaskReceive(t)
    \/ \E k \in Conns, f \in OkResponses : HostSend(k, f)
    \/ \E k \in Conns, f \in EventFrames : HostEvent(k, f)
    \/ \E k \in Conns, m \in OddFrames \cup Malformed : HostOdd(k, m)

ProtocolSpec == Init /\ [][ProtocolNext]_vars

\* Sessions of one client: it subscribes handlers, connects, disconnects and
\* connects again, while the host broadcasts events.
Broadcasts == {f \in EventFrames : f.id = None}

SessionNext ==
    \/ \E p \in Procs : Connect(p, 1)
    \/ \E p \in Procs : Disconnect(p, 1)
    \/ \E e \in EventKeys : on_event(1, e, "ok")
    \/ \E p \in Procs : ConnectOk(p)
    \/ \E p \in Procs : ConnectFail(p)
    \/ \E p \in Procs : DisconnectTaskDone(p)
    \/ \E p \in Procs : DisconnectClosed(p)
    \/ \E t \in Tasks : TaskStart(t)
    \/ \E t \in Tasks : TaskReceive(t)
    \/ \E t \in Tasks : TaskCancelled(t)
    \/ \E k \in Conns, f \in Broadcasts : HostEvent(k, f)

SessionSpec == Init /\ [][SessionNext]_vars

\* The connection tools: listings and invocations of the three connection
\* tools next to a registered command, with either setting of
\* CODOT_ENABLE_ALL_TOOLS.
MetaCalls == {ToolCall(n) : n \in MetaTools \cup {"godot_ping"}}

MetaNext ==
    \/ list_tools
    \/ \E p \in Procs, tool \in MetaCalls : CallTool(p, tool)
    \/ \E p \in Procs : ConnectOk(p)
    \/ \E p \in Procs : ConnectFail(p)
    \/ \E p \in Procs : DisconnectTaskDone(p)
    \/ \E p \in Procs : DisconnectClosed(p)
    \/ \E p \in Procs : SendDone(p)
    \/ \E p \in Procs : CallCancelled(p)
    \/ \E t \in Tasks : TaskStart(t)
    \/ \E t \in Tasks : TaskCancelled(t)

MetaSpec == RegistryInit /\ [][MetaNext]_vars

\* Answers: command invocations through the gateway, answered by the host
\* with success and error envelopes.
ReplyNext ==
    \/ \E p \in FewProcs : CallTool(p, ToolCall("godot_ping"))
    \/ \E p \in Procs : ConnectOk(p)
    \/ \E p \in Procs : ConnectFail(p)
    \/ \E p \in Procs : SendDone(p)
    \/ \E p \in Procs : CallReturn(p)
    \/ \E t \in Tasks : TaskStart(t)
    \/ \E t \in Tasks : TaskReceive(t)
    \/ \E k \in Conns, f \in ResponseFrames : HostSend(k, f)

ReplySpec == Init /\ [][ReplyNext]_vars

\* Cancellation: calls on one connected client whose callers may cancel
\* them while they are suspended.
CancelNext ==
    \/ Connect(1, 1)
    \/ \E p \in Procs \ {1} : SendCommand(p, 1)
    \/ \E p \in Procs : CallerCancel(p)
    \/ \E p \in Procs : ConnectOk(p)
    \/ \E p \in Procs : ConnectFail(p)
    \/ \E p \in Procs : SendDone(p)
    \/ \E p \in Procs : CallReturn(p)
    \/ \E p \in Procs : TimeoutElapses(p)
    \/ \E p \in Procs : TimerFire(p)
    \/ \E p \in Procs : CallTimeout(p)
    \/ \E t \in Tasks : TaskStart(t)
    \/ \E t \in Tasks : TaskReceive(t)
    \/ \E k \in Conns, f \in ResponseFrames : HostSend(k, f)

CancelSpec == Init /\ [][CancelNext]_vars

\* Ordering: one connected client with plain and async handlers and a call
\* in progress, and a host that broadcasts events and answers the call.
OrderNext ==
    \/ Connect(1, 1)
    \/ SendCommand(2, 1)
    \/ \E e \in EventKeys, h \in {"ok", "slow"} : on_event(1, e, h)
    \/ \E p \in Procs : ConnectOk(p)
    \/ \E p \in Procs : ConnectFail(p)
    \/ \E p \in Procs : SendDone(p)
    \/ \E p \in Procs : CallReturn(p)
    \/ \E t \in Tasks : TaskStart(t)
    \/ \E t \in Tasks : TaskReceive(t)
    \/ \E t \in Tasks : HandlerDone(t)
    \/ \E k \in Conns, f \in OkResponses : HostSend(k, f)
    \/ \E k \in Conns, f \in Broadcasts : HostEvent(k, f)

OrderSpec == Init /\ [][OrderNext]_vars

\* Subscriptions: callers subscribe and unsubscribe handlers on one connected
\* client while the host broadcasts events.
UnsubscribeNext ==
    \/ Connect(1, 1)
    \/ \E e \in EventKeys, h \in Handlers : on_event(1, e, h)
    \/ \E e \in EventKeys, h \in Handlers : off_event(1, e, h)
    \/ \E p \in Procs, e \in EventKeys, h \in Handlers :
           off_event_raises(p, 1, e, h)
    \/ \E p \in Procs : ConnectOk(p)
    \/ \E p \in Procs : ConnectFail(p)
    \/ \E t \in Tasks : TaskStart(t)
    \/ \E t \in Tasks : TaskReceive(t)
    \/ \E k \in Conns, f \in Broadcasts : HostEvent(k, f)

UnsubscribeSpec == Init /\ [][UnsubscribeNext]_vars

\* Reconnection: a client is connected, disconnected and, once disconnect()
\* has returned, connected again, while the host broadcasts events.
ReconnectNext ==
    \/ Connect(1, 1)
    \/ Disconnect(2, 1)
    \/ proc[2].pc = "done" /\ Connect(3, 1)
    \/ \E e \in EventKeys : on_event(1, e, "ok")
    \/ \E p \in Procs : ConnectOk(p)
    \/ \E p \in Procs : ConnectFail(p)
    \/ \E p \in Procs : DisconnectTaskDone(p)
    \/ \E p \in Procs : DisconnectClosed(p)
    \/ \E t \in Tasks : TaskStart(t)
    \/ \E t \in Tasks : TaskReceive(t)
    \/ \E t \in Tasks : TaskCancelled(t)
    \/ \E k \in Conns, f \in Broadcasts : HostEvent(k, f)

ReconnectSpec == Init /\ [][ReconnectNext]_vars

\* ------------------------------------------------------------- properties
IsCall(p) == proc[p].op = "send_command"
Done(p) == proc[p].pc = "done"
LiveTasksOf(c) == {t \in Tasks : LiveTask(t) /\ task[t].cl = c}
\* The client that owns connection k: the one caller k's connect() was for.
OwnerOf(k) == task[k].cl

\* C1: a call that returns a response returns the frame whose id is the
\* identifier generated for that call, and a future is only ever resolved
\* with a frame carrying its own identifier.
C1_NoCrossDelivery ==
    \A p \in Procs :
        /\ (IsCall(p) /\ Done(p) /\ proc[p].res = "response")
               => proc[p].frame.id = p
        /\ fut[p] = "result" /\ ~Done(p) => futVal[p].id = p

\* Two calls were outstanding together and the later one was answered first:
\* it has returned its response while the earlier one still waits.
C1_Witness ==
    \E p, q \in Procs :
        /\ p < q
        /\ proc[p].pc = "waiting" /\ fut[p] = "pending"
        /\ IsCall(q) /\ Done(q) /\ proc[q].res = "response"
        /\ proc[q].cl = proc[p].cl

\* The request of call p reached the host: the call got as far as awaiting
\* its response.
Sent(p) == \E k \in Conns : p \in wire[k]

\* C2 (as claimed): a call that was awaiting its response when disconnect()
\* cancelled its future returns a result with code CONNECTION_CLOSED.
C2_DisconnectReturnsConnectionClosed ==
    \A p \in Procs :
        (/\ IsCall(p) /\ Done(p) /\ Sent(p)
         /\ fut[p] = "cancelled" /\ proc[p].res # "TIMEOUT")
            => (proc[p].out = "returned" /\ proc[p].res = "CONNECTION_CLOSED")

\* C3 (as claimed): once the receive loop has ended on a close that the
\* client did not ask for, and the client holds no connection, no call of
\* that client is left pending, awaiting a response.
C3_RemoteCloseClearsPending ==
    \A t \in Tasks :
        (/\ task[t].how = "closed"
         /\ ~closeCalled[task[t].conn]
         /\ websocket[task[t].cl] = None)
            => \A r \in pending_requests[task[t].cl] :
                   proc[r].pc # "waiting"

\* C4: a call suspended awaiting its response returns TIMEOUT unless its
\* response arrives or disconnect() cancels it; TIMEOUT is returned only when
\* the whole configured timeout has elapsed, and the identifier is then no
\* longer in the pending-request map.
C4_TimeoutSafety ==
    \A p \in Procs :
        /\ proc[p].pc = "timedout" => proc[p].due
        /\ (IsCall(p) /\ Done(p) /\ proc[p].res = "TIMEOUT")
               => (proc[p].due /\ p \notin pending_requests[proc[p].cl])

C4_Timeout ==
    /\ []C4_TimeoutSafety
    /\ \A p \in Procs :
           (proc[p].pc = "waiting" /\ fut[p] = "pending")
               ~> \/ (Done(p) /\ proc[p].res = "TIMEOUT")
                  \/ fut[p] = "result"
                  \/ (fut[p] = "cancelled" /\ proc[p].pc # "timedout")

\* A call has returned TIMEOUT on a connection that is still open.
C4_Witness ==
    \E p \in Procs :
        /\ IsCall(p) /\ Done(p) /\ proc[p].res = "TIMEOUT"
        /\ p \in wire[websocket[proc[p].cl]]
        /\ is_connected(proc[p].cl)

\* C5: a future is resolved at most once, a finished call keeps its one
\* outcome, and taking a frame whose id is not (or no longer) a pending key
\* changes nothing but the inbound queue.
FrameTaken(k) == inbox[k] # <<>> /\ inbox'[k] = Tail(inbox[k])

C5_Step ==
    /\ \A p \in Procs :
           /\ fut[p] \in {"result", "cancelled"} => fut'[p] = fut[p]
           /\ fut[p] = "result" =>
                  \/ futVal'[p] = futVal[p]
                  \/ proc'[p].pc = "done" /\ proc'[p].frame = futVal[p]
           /\ Done(p) => proc'[p] = proc[p]
    /\ \A k \in Conns :
           (FrameTaken(k) /\ ~Matches(OwnerOf(k), Head(inbox[k])))
               => UNCHANGED <<serverVars, eventVars, clientVars, fut, futVal,
                              connState, closeCalled, wire, task, proc>>

C5_SingleResolution == [][C5_Step]_vars

\* A response for a call that has already returned (answered or timed out)
\* is at the head of a queue that a running receive loop reads.
C5_Witness ==
    \E p \in Procs, t \in Tasks :
        /\ IsCall(p) /\ Done(p) /\ proc[p].res \in {"response", "TIMEOUT"}
        /\ task[t].st = "iter" /\ ~task[t].cancelReq
        /\ inbox[task[t].conn] # <<>>
        /\ Head(inbox[task[t].conn]).id = p

\* C6 (as claimed): a connected client that is not inside disconnect() has
\* exactly one live receive task.
InDisconnect(c) ==
    \E p \in Procs : proc[p].op = "disconnect" /\ proc[p].cl = c /\ ~Done(p)

C6_ExactlyOneReceiveTask ==
    \A c \in Clients :
        (is_connected(c) /\ ~InDisconnect(c))
            => Cardinality(LiveTasksOf(c)) = 1

\* C7: a caller that invokes connect() on a connected client returns True in
\* that same step, and the step changes neither the handle nor the receive
\* task nor anything else of the client.
C7_Step ==
    \A p \in Procs :
        (/\ proc[p].pc = "new"
         /\ proc'[p].op = "connect"
         /\ is_connected(proc'[p].cl))
            => /\ proc'[p].pc = "done"
               /\ proc'[p].res = "True"
               /\ UNCHANGED <<serverVars, eventVars, clientVars, fut, futVal, hostVars,
                              task>>

C7_ConnectIdempotent == [][C7_Step]_vars

\* A connect() has returned True without having made a connection of its own,
\* on a client that is connected.
C7_Witness ==
    \E p \in Procs :
        /\ proc[p].op = "connect" /\ Done(p) /\ proc[p].res = "True"
        /\ connState[p] = "unused"
        /\ is_connected(proc[p].cl)
        /\ Cardinality(LiveTasksOf(proc[p].cl)) = 1

\* C8 (as claimed): when disconnect() has returned, the connection the client
\* held when it was called is closed.
C8_DisconnectCloses ==
    \A p \in Procs :
        (proc[p].op = "disconnect" /\ Done(p) /\ proc[p].ws0 # None)
            => connState[proc[p].ws0] = "closed"

\* C9 (as claimed): every finished gateway invocation returned a result.
C9_NeverRaises ==
    \A p \in Procs :
        (proc[p].tool # NoTool /\ Done(p)) => proc[p].out = "returned"

\* C10 (as claimed): every finished command invocation ended in one of the
\* terminal states Resolved, TimedOut, ConnectionLost, Rejected.  The
\* connectivity results NOT_CONNECTED and SEND_ERROR count as ConnectionLost.
TerminalState(p) ==
    CASE proc[p].out = "raised" -> "none"
      [] proc[p].res = "response" -> "Resolved"
      [] proc[p].res = "TIMEOUT" -> "TimedOut"
      [] proc[p].res \in {"CONNECTION_CLOSED", "NOT_CONNECTED", "SEND_ERROR"}
            -> "ConnectionLost"
      [] proc[p].res = "UNKNOWN_COMMAND" -> "Rejected"
      [] OTHER -> "none"

C10_OneTerminalState ==
    \A p \in Procs :
        (IsCommandTool(proc[p].tool) /\ Done(p))
            => TerminalState(p) \in
                   {"Resolved", "TimedOut", "ConnectionLost", "Rejected"}

\* ------------------------------------------------------ gateway properties
\* Caller p's invocation starts in this step.
Starts(p) == proc[p].pc = "new" /\ proc'[p].pc # "new"

\* The registry key a command tool names.
KeyOf(tool) == cmd_name[tool.name]

Registered(tool) == IsCommandTool(tool) /\ KeyOf(tool) \in DOMAIN COMMANDS

\* C11: invoking a godot_-prefixed name that is not a registry key ends in
\* that same step with UNKNOWN_COMMAND, and the step touches neither the
\* client nor the connection: no connect attempt, no pending request, no
\* frame, whether the session is connected or not.
C11_Step ==
    \A p \in Procs :
        (/\ Starts(p)
         /\ IsCommandTool(proc'[p].tool)
         /\ ~Registered(proc'[p].tool))
            => /\ proc'[p].pc = "done"
               /\ proc'[p].out = "returned"
               /\ proc'[p].res = "UNKNOWN_COMMAND"
               /\ UNCHANGED <<serverVars, eventVars, clientVars, fut, futVal,
                              hostVars, task>>

C11_UnknownCommand == [][C11_Step]_vars

\* An unregistered name was rejected while the session was connected, and
\* the invocation made no connection and registered no future.
C11_Witness ==
    \E p \in Procs :
        /\ Done(p) /\ proc[p].res = "UNKNOWN_COMMAND"
        /\ is_connected(godot_client)
        /\ connState[p] = "unused" /\ fut[p] = "unborn"

\* C12 (as claimed): the one implicit connect attempt of a command
\* invocation either fails, and the invocation then returns NOT_CONNECTED or
\* CONNECTION_FAILED with nothing registered or sent, or succeeds, and the
\* invocation then sends its command on the connection just made.
C12_Step ==
    \A p \in Procs :
        (/\ proc[p].pc = "connecting"
         /\ IsCommandTool(proc[p].tool)
         /\ proc'[p].pc # "connecting")
            => IF connState'[p] = "open"
               THEN proc'[p].pc = "sending" /\ proc'[p].aux = p
               ELSE /\ proc'[p].pc = "done"
                    /\ proc'[p].res \in {"NOT_CONNECTED", "CONNECTION_FAILED"}
                    /\ fut'[p] = "unborn"
                    /\ \A k \in Conns : p \notin wire'[k]

C12_ImplicitConnect == [][C12_Step]_vars

\* C13 (as claimed): an invocation of a registered command whose arguments
\* lack a required field is never handed to the client: no connect attempt
\* and no request is made for it.
MissingRequired(tool) ==
    Registered(tool) /\ ~(COMMANDS[KeyOf(tool)].required \subseteq tool.arguments)

C13_MissingArgumentRejected ==
    \A p \in Procs :
        MissingRequired(proc[p].tool)
            => /\ fut[p] = "unborn"
               /\ proc[p].pc \notin {"connecting", "sending", "waiting"}

\* C14: send_command on a client that is not connected ends in the step that
\* calls it with NOT_CONNECTED, and that step leaves the client, the futures
\* and the connections as they were.
C14_Step ==
    \A p \in Procs :
        (/\ Starts(p)
         /\ proc'[p].op = "send_command"
         /\ ~is_connected(proc'[p].cl))
            => /\ proc'[p].pc = "done"
               /\ proc'[p].out = "returned"
               /\ proc'[p].res = "NOT_CONNECTED"
               /\ UNCHANGED <<serverVars, eventVars, clientVars, fut, futVal,
                              hostVars, task>>

C14_NotConnected == [][C14_Step]_vars

\* A direct send_command has returned NOT_CONNECTED on a client that had
\* been connected before.
C14_Witness ==
    \E p \in Procs :
        /\ IsCall(p) /\ Done(p) /\ proc[p].res = "NOT_CONNECTED"
        /\ proc[p].tool = NoTool
        /\ fut[p] = "unborn"
        /\ \E k \in Conns : connState[k] = "closed"

\* C15 (as claimed): the `command` of a request on the wire is the
\* descriptor's alias when one is set, and the registry key otherwise.
WireName(n) ==
    IF COMMANDS[n].godot_command # "" THEN COMMANDS[n].godot_command ELSE n

C17_Step ==
    \A p \in Procs :
        (Starts(p) /\ IsCommandTool(proc'[p].tool))
            => /\ (proc'[p].res = "UNKNOWN_COMMAND") <=> ~Registered(proc'[p].tool)
               /\ Registered(proc'[p].tool)
                      => proc'[p].op \in {"connect", "send_command"}

C17_ResolveByRegistry == [][C17_Step]_vars

\* The request of a command that the listing just made does not advertise
\* (suppressed or switched off) is on the wire.
C17_Witness ==
    \E p \in Procs :
        /\ Registered(proc[p].tool) /\ Sent(p)
        /\ tools # {} /\ proc[p].tool.name \notin tools

\* -------------------------------------------------------- event properties
\* The frame the receive loop of connection k takes in this step, and the
\* subscriptions of the owning client to the event that frame would be.
Taken(k) == Head(inbox[k])
Subscribed(k) == event_handlers[OwnerOf(k)][EventKey(Taken(k).type)]

\* C18 (as claimed): a frame that is emitted as an event invokes every
\* handler subscribed to its key when the dispatch starts, in subscription
\* order, whatever a handler raises, and the receive loop goes on.
C18_Step ==
    \A k \in Conns :
        (FrameTaken(k) /\ ~IsResponseBranch(Taken(k)))
            => /\ invoked' = Subscribed(k)
               /\ \A t \in Tasks :
                      (task[t].st = "iter" /\ task[t].conn = k)
                          => task'[t].st = "iter"

C18_DispatchAll == [][C18_Step]_vars

\* C19 (as claimed): a frame whose id is a pending key goes to the
\* correlator (the key leaves the map), and any other frame with a
\* recognised event type goes to the dispatcher: the dispatch reaches the
\* first handler subscribed to that event.
C19_Step ==
    \A k \in Conns :
        FrameTaken(k) =>
            IF Matches(OwnerOf(k), Taken(k))
            THEN Taken(k).id \notin pending_requests'[OwnerOf(k)]
            ELSE (Taken(k).type # "response" /\ Subscribed(k) # <<>>)
                     => (invoked' # <<>> /\ invoked'[1] = Subscribed(k)[1])

C19_Routing == [][C19_Step]_vars

\* C20: a frame whose id is a pending key and whose type is an event type
\* resolves that request with the frame and invokes no handler; the
\* subscriptions stay as they are.
C20_Step ==
    \A k \in Conns :
        (/\ FrameTaken(k)
         /\ Matches(OwnerOf(k), Taken(k))
         /\ Taken(k).type # "response")
            => /\ Taken(k).id \notin pending_requests'[OwnerOf(k)]
               /\ fut[Taken(k).id] = "pending"
                      => /\ fut'[Taken(k).id] = "result"
                         /\ futVal'[Taken(k).id] = Taken(k)
               /\ invoked' = <<>>
               /\ UNCHANGED event_handlers

C20_IdBeforeType == [][C20_Step]_vars

\* A call has returned, as its response, a frame with an event type, on a
\* client that has a handler subscribed to that event.
C20_Witness ==
    \E p \in Procs :
        /\ IsCall(p) /\ Done(p) /\ proc[p].res = "response"
        /\ proc[p].frame.type # "response"
        /\ proc[p].frame.id = p
        /\ event_handlers[proc[p].cl][EventKey(proc[p].frame.type)] # <<>>

\* ------------------------------------------------------------- protocol errors
\* A message that is a protocol error for client c: text that is not JSON, a
\* decoded value that is not an object, or a frame whose id is not pending.
ProtocolError(c, m) ==
    \/ m \in Malformed
    \/ m.id # None /\ m.id \notin pending_requests[c]

\* The receive loop reading connection k goes on and its client keeps the
\* handle it holds.
LoopGoesOn(k) ==
    \A t \in Tasks :
        (task[t].st = "iter" /\ task[t].conn = k)
            => /\ task'[t].st = "iter"
               /\ websocket'[task[t].cl] = websocket[task[t].cl]

\* C21 (as claimed): a message that is a protocol error (not JSON, not a
\* JSON object, or carrying an unmatched id) is dropped: the receive loop
\* that took it keeps iterating and the session keeps its connection.
C21_Step ==
    \A k \in Conns :
        (FrameTaken(k) /\ ProtocolError(OwnerOf(k), Taken(k)))
            => /\ LoopGoesOn(k)
               /\ UNCHANGED <<pending_requests, fut>>

C21_ProtocolErrorNotFatal == [][C21_Step]_vars

\* C22: a frame that carries no id matching a pending request and no known
\* type is dropped without a trace: the pending-request map, the futures,
\* the subscriptions and the connection are unchanged, the receive loop goes
\* on and no handler is invoked.
C22_Step ==
    \A k \in Conns :
        (/\ FrameTaken(k)
         /\ Taken(k) \in UnknownFrames
         /\ ~Matches(OwnerOf(k), Taken(k)))
            => /\ UNCHANGED <<pending_requests, fut, futVal, event_handlers,
                              websocket, receive_task, connState>>
               /\ LoopGoesOn(k)
               /\ invoked' = <<>>

C22_UnknownFrameDropped == [][C22_Step]_vars

\* The host has sent a frame of an unknown type (and no other undefined
\* message) on a connection whose receive loop has taken everything sent and
\* still iterates, for a connected client with a request outstanding and a
\* handler subscribed.
C22_Witness ==
    \E k \in Conns, t \in Tasks :
        /\ odd[k] = {"unknown"} /\ inbox[k] = <<>>
        /\ task[t].st = "iter" /\ task[t].conn = k
        /\ is_connected(task[t].cl) /\ websocket[task[t].cl] = k
        /\ \E p \in pending_requests[task[t].cl] :
               fut[p] = "pending" /\ p \in wire[k]
        /\ \E e \in EventKeys : event_handlers[task[t].cl][e] # <<>>
        /\ invoked = <<>>

\* ------------------------------------------------------------- sessions
\* The connections to the host that are open, and the receive loops alive.
OpenConns == {k \in Conns : connState[k] = "open"}
LiveTasks == {t \in Tasks : LiveTask(t)}

\* C23 (as claimed): the gateway holds at most one connection to the host,
\* and an explicit reconnect replaces the session: when godot_connect
\* completes with no other invocation in progress, and there was at most
\* one open connection and live receive loop before, there is at most one
\* after.
C23_Step ==
    \A p \in Procs :
        (/\ proc[p].tool.name = "godot_connect"
         /\ proc[p].pc = "connecting" /\ proc'[p].pc = "done"
         /\ \A q \in Procs \ {p} : proc[q].pc \in {"new", "done"}
         /\ Cardinality(OpenConns) <= 1 /\ Cardinality(LiveTasks) <= 1)
            => Cardinality(OpenConns') <= 1 /\ Cardinality(LiveTasks') <= 1

C23_AtMostOneConnection == [][C23_Step]_vars

\* ------------------------------------------------------------- connect failures
\* Caller p's connect() (or the connect its tool invocation made) failed.
ConnectFailed(p) == Done(p) /\ connState[p] \in ConnectErrors

\* C24 (as claimed): a refused and a timed-out attempt are not raised, and
\* what they return tells the caller which of the two happened.
C24_ReasonsDistinguishable ==
    \A p, q \in Procs :
        (/\ ConnectFailed(p) /\ connState[p] = "refused"
         /\ ConnectFailed(q) /\ connState[q] = "timeout"
         /\ proc[p].tool = proc[q].tool)
            => /\ proc[p].out = "returned" /\ proc[q].out = "returned"
               /\ proc[p].res # proc[q].res

\* C25: a connect() attempt that fails, for whichever reason, returns
\* failure and touches nothing: the client's handle and receive task are what
\* they were, no receive task was spawned for the attempt, and a session
\* that was disconnected (no handle held) is still disconnected.
C25_Step ==
    \A p \in Procs :
        (/\ proc[p].pc = "connecting" /\ proc'[p].pc = "done"
         /\ connState'[p] \in ConnectErrors)
            => /\ proc'[p].out = "returned"
               /\ proc'[p].res = ConnectFailedResult(proc[p].tool)
               /\ UNCHANGED <<websocket, receive_task, pending_requests, task>>
               /\ task'[p] = NoTask
               /\ ~is_connected(proc[p].cl) => ~is_connected(proc[p].cl)'
               /\ websocket[proc[p].cl] = None =>
                      websocket'[proc[p].cl] = None

C26_Step ==
    \A p \in Procs :
        (proc[p].op = "disconnect" /\ ~Done(p) /\ Done(p)')
            => \A e \in EventKeys : event_handlers'[proc[p].cl][e] = <<>>

C26_TeardownDiscardsSubscriptions == [][C26_Step]_vars

\* ------------------------------------------------------------- independence
\* The step changes something of call q: its future, the frame it holds, its
\* pending entry, or where the caller is.
Affected(q) ==
    \/ fut'[q] # fut[q] \/ futVal'[q] # futVal[q]
    \/ /\ pending_requests' # pending_requests
       /\ \E c \in Clients :
              (q \in pending_requests[c]) # (q \in pending_requests'[c])
    \/ IsCall(q) /\ proc'[q] # proc[q]

\* A disconnect() takes a step.
DisconnectMoves ==
    \E d \in Procs :
        /\ proc'[d] # proc[d]
        /\ proc[d].op = "disconnect" \/ proc'[d].op = "disconnect"

\* C27: calls are independent: a step that is not part of a disconnect()
\* (a frame handled, a timeout, a send that fails, a call returning) changes
\* the future, the pending entry and the position of at most one call.
C27_Step ==
    ~DisconnectMoves => Cardinality({q \in Procs : Affected(q)}) <= 1

C27_CallsIndependent == [][C27_Step]_vars

\* One call of a client has returned TIMEOUT while another call of the same
\* client is still suspended with its entry pending.
C27_Witness ==
    \E p, q \in Procs :
        /\ p # q /\ IsCall(p) /\ IsCall(q) /\ proc[p].cl = proc[q].cl
        /\ Done(p) /\ proc[p].res = "TIMEOUT"
        /\ proc[q].pc = "waiting" /\ fut[q] = "pending"
        /\ q \in pending_requests[proc[q].cl]

\* ------------------------------------------------------------- connection tools
\* C28: every listing advertises the three connection tools, whatever the
\* flag and the registry, and an invocation of one of them is handled on
\* its own: it is never answered by the registry lookup (unknown command,
\* unknown tool), never makes the implicit connection of a command, never
\* registers a request and never puts a command frame on a connection.
C28_ConnectionTools ==
    /\ tools # {} => MetaTools \subseteq tools
    /\ \A p \in Procs :
           proc[p].tool.name \in MetaTools =>
               /\ proc[p].res \notin
                      {"UNKNOWN_COMMAND", "UNKNOWN_TOOL", "NOT_CONNECTED"}
               /\ proc[p].op \in {"status", "connect", "disconnect"}
               /\ proc[p].command = "" /\ fut[p] = "unborn"
               /\ ~Sent(p)
               /\ \A c \in Clients : p \notin pending_requests[c]

\* The tools have been listed with the override off, and a status check, an
\* explicit connect and an explicit disconnect have all completed while
\* nothing was ever sent to the host.
C28_Witness ==
    /\ ~ENABLE_ALL_TOOLS /\ MetaTools \subseteq tools
    /\ \A n \in MetaTools :
           \E p \in Procs : proc[p].tool.name = n /\ Done(p)
                                /\ proc[p].out = "returned"
    /\ \E p \in Procs : proc[p].res = "Connected"
    /\ \A k \in Conns : wire[k] = {}

\* ------------------------------------------------------------- answers
\* C29: the host's answer reaches the caller as it was received: the frame
\* that resolves a call's future is stored as it is, and the invocation
\* returns that very frame as its result, for a success envelope and for an
\* error envelope alike.
C29_Step ==
    /\ \A k \in Conns :
           (/\ FrameTaken(k) /\ Matches(OwnerOf(k), Taken(k))
            /\ fut[Taken(k).id] = "pending")
               => /\ fut'[Taken(k).id] = "result"
                  /\ futVal'[Taken(k).id] = Taken(k)
    /\ \A p \in Procs :
           (proc[p].pc = "waiting" /\ fut[p] = "result" /\ Done(p)')
               => /\ proc'[p].out = "returned"
                  /\ proc'[p].res = "response"
                  /\ proc'[p].frame = futVal[p]

C29_EnvelopeVerbatim == [][C29_Step]_vars

\* One invocation has returned a success envelope and another an error
\* envelope, each the answer to its own request.
C29_Witness ==
    \E p, q \in Procs :
        /\ IsCommandTool(proc[p].tool) /\ IsCommandTool(proc[q].tool)
        /\ Done(p) /\ proc[p].res = "response"
        /\ proc[p].frame.id = p /\ proc[p].frame.ok
        /\ Done(q) /\ proc[q].res = "response"
        /\ proc[q].frame.id = q /\ ~proc[q].frame.ok

\* ------------------------------------------------------------- idle disconnect
\* Caller p starts a disconnect() in this step.
StartsDisconnect(p) == proc[p].pc = "new" /\ proc'[p].op = "disconnect"

\* Client c holds nothing: no handle, no receive task, no pending request.
Idle(c) ==
    /\ websocket[c] = None /\ receive_task[c] = None
    /\ pending_requests[c] = {}

\* C30: disconnect() never raises, and when it returns the session is
\* disconnected (no handle is held) with an empty pending-request map.  On a session that holds
\* no handle and no live receive task it returns at once without touching
\* any connection or task, and on one that holds nothing at all (as after a
\* disconnect) it changes nothing: twice is the same as once.
C30_Step ==
    \A p \in Procs :
        /\ (proc'[p].op = "disconnect" /\ ~Done(p) /\ Done(p)')
               => /\ proc'[p].out = "returned"
                  /\ pending_requests'[proc'[p].cl] = {}
                  /\ websocket'[proc'[p].cl] = None
        /\ (/\ StartsDisconnect(p)
            /\ websocket[proc'[p].cl] = None
            /\ \A t \in LiveTasks : receive_task[proc'[p].cl] # t)
               => /\ Done(p)'
                  /\ UNCHANGED <<websocket, hostVars, task>>
        /\ (StartsDisconnect(p) /\ Idle(proc'[p].cl))
               => UNCHANGED <<clientVars, fut, futVal, hostVars, task>>

C30_IdleDisconnect == [][C30_Step]_vars

\* A disconnect() that tore a session down and a disconnect() that found no
\* handle have both returned, and the client holds nothing.
C30_Witness ==
    \E p, q \in Procs :
        /\ proc[p].op = "disconnect" /\ proc[q].op = "disconnect"
        /\ proc[p].cl = proc[q].cl
        /\ Done(p) /\ proc[p].out = "returned" /\ proc[p].ws0 # None
        /\ Done(q) /\ proc[q].out = "returned" /\ proc[q].ws0 = None
        /\ Idle(proc[p].cl)

\* ------------------------------------------------------------- registry data
\* C31: the suppression set only names registered commands: every name of
\* DISABLED_COMMANDS as shipped is a key of COMMANDS as shipped, and the same
\* holds of the registry sample the gateway actions work on, which is drawn
\* from the shipped data; so each suppressed name is the name of a tool, and
\* a listing made with the override off leaves that tool out.
C31_SuppressedAreRegistered ==
    /\ ShippedDisabled \subseteq ShippedCommands
    /\ DISABLED_COMMANDS \subseteq DOMAIN COMMANDS
    /\ DISABLED_COMMANDS \subseteq ShippedDisabled
    /\ (tools # {} /\ ~ENABLE_ALL_TOOLS) =>
           \A n \in DISABLED_COMMANDS : ToolName(n) \notin tools

\* The tools were listed with the override off, and a suppressed command,
\* registered in the shipped data and in the sample, is not among them.
C31_Witness ==
    /\ ~ENABLE_ALL_TOOLS /\ tools # {}
    /\ \E n \in DISABLED_COMMANDS :
           /\ n \in ShippedDisabled /\ n \in ShippedCommands
           /\ n \in DOMAIN COMMANDS /\ ToolName(n) \notin tools

\* ------------------------------------------------------------- stale loops
\* C32 (as claimed): a receive loop that ends leaves the handle of a
\* connection established later in place: when the loop reading connection k
\* ends while the client holds another, open connection, the client still
\* holds that connection afterwards.
C32_Step ==
    \A t \in Tasks :
        LET c == task[t].cl
        IN  (/\ task[t].st = "iter" /\ task'[t].st = "done"
             /\ websocket[c] # None /\ websocket[c] # task[t].conn
             /\ is_connected(c))
                => websocket'[c] = websocket[c]

C32_OldLoopKeepsNewHandle == [][C32_Step]_vars

\* ------------------------------------------------------------- pending map
\* Call p is suspended awaiting its outcome: in the send, in wait_for, or
\* about to resume from wait_for.
Awaiting(p) == IsCall(p) /\ proc[p].pc \in {"sending", "waiting", "timedout"}

\* C33 (as claimed): every identifier in a client's pending-request map is
\* that of a call on that client which is suspended awaiting its outcome;
\* a call that has returned or was cancelled has no entry.
C33_PendingAreAwaiting ==
    \A c \in Clients : \A r \in pending_requests[c] :
        Awaiting(r) /\ proc[r].cl = c

\* ------------------------------------------------------------- dispatch
\* The positions of a subscription list that hold a handler which does not
\* unsubscribe anything.
Plain(hs) == {i \in 1..Len(hs) : hs[i] # "once"}

\* C34 (as claimed): a handler that unsubscribes itself during a dispatch
\* makes no other handler miss it: every handler subscribed when the
\* dispatch starts that is not unsubscribed is invoked in that dispatch.
C34_Step ==
    \A k \in Conns :
        (/\ FrameTaken(k) /\ ~IsResponseBranch(Taken(k))
         /\ Taken(k).type \in MsgTypes)
            => Cardinality(Plain(invoked')) = Cardinality(Plain(Subscribed(k)))

C34_UnsubscribeSkipsNone == [][C34_Step]_vars

\* C35: inbound frames are handled one at a time, in arrival order: while a
\* receive loop is suspended in a handler of an event frame, it takes no
\* further frame from its connection and no pending request of its client
\* is resolved; a frame that leaves a connection is the oldest one waiting.
C35_Step ==
    /\ \A t \in Tasks :
           task[t].st = "handling" =>
               /\ Len(inbox'[task[t].conn]) >= Len(inbox[task[t].conn])
               /\ \A p \in Procs :
                      (IsCall(p) /\ proc[p].cl = task[t].cl
                           /\ fut[p] = "pending") => fut'[p] = "pending"
    /\ \A k \in Conns :
           Len(inbox'[k]) < Len(inbox[k]) => inbox'[k] = Tail(inbox[k])

C36_FailedConnectKeepsGateway ==
    \A p \in Procs :
        (Done(p) /\ proc[p].tool.name = "godot_connect"
             /\ proc[p].res = "CONNECTION_FAILED") =>
            godot_client # proc[p].cl

\* C37 (as claimed): off_event for a handler that is not subscribed under
\* the given key does not raise: every off_event call that has ended has
\* returned.
C37_UnsubscribeAbsentReturns ==
    \A p \in Procs :
        (Done(p) /\ proc[p].op = "off_event") => proc[p].out = "returned"

\* C38 (as claimed): a connect() called after disconnect() has returned on
\* the same client, when it succeeds, yields a connected client with exactly
\* one live receive task and an empty pending-request map.
C38_Step ==
    \A p, q \in Procs :
        (/\ q < p /\ Done(q) /\ proc[q].op = "disconnect"
         /\ proc[p].op = "connect" /\ proc[p].cl = proc[q].cl
         /\ proc[p].pc = "connecting"
         /\ proc'[p].pc = "done" /\ proc'[p].res = "True")
        => /\ websocket'[proc[p].cl] # None
           /\ connState'[websocket'[proc[p].cl]] = "open"
           /\ Cardinality({t \in Tasks :
                              /\ task'[t].st \in {"created", "iter", "handling"}
                              /\ task'[t].cl = proc[p].cl}) = 1
           /\ pending_requests'[proc[p].cl] = {}

C38_ReconnectIsClean == [][C38_Step]_vars

=============================================================================
